---- MODULE Spec2Model ----
\* A state-machine model of scripts/perception_policy_train.py (load_dataset
\* and main) together with the helpers of affordance_gym/utils.py it calls.
\*
\* Tensors are modelled by what the training loop observes of them: an array
\* is its number of rows, a parameter vector is an abstract weight value, a
\* loss is a natural number, a mean is the exact fraction <<sum, count>>.
EXTENDS Integers, Sequences, FiniteSets, TLC

\* ---------------------------------------------------------------- bounds
MaxEpoch == 2
MaxData == 2
MaxLoss == 1
MaxParam == 2
MaxWorkers == 1
MaxBatch == 3

\* ------------------------------------------------------ program constants
DefaultModelIndex == -1
DefaultBatchSize == 124
DebugSamples == 10

Params == 1..MaxParam
Losses == 0..MaxLoss
\* the training loss is drawn from the two ends of that range
TrainLosses == {0, MaxLoss}
ModelIndexes == {DefaultModelIndex, 0, 1}
BatchSizes == {MaxBatch, DefaultBatchSize}

PlotFiles ==
  <<"train_scatter.png", "val_scatter.png", "full_scatter.png",
    "latents_distribution.png", "avg_mse.png", "avg_log_mse.png">>

MainProcess == [proc |-> "main", id |-> 0]
WorkerProcess(w) == [proc |-> "worker", id |-> w]

\* ------------------------------------------------------------ arithmetic
RECURSIVE Sum(_)
Sum(s) == IF s = <<>> THEN 0 ELSE Head(s) + Sum(Tail(s))

\* np.inf, and the nan np.mean returns for an empty list
Inf == <<1, 0>>
NaN == <<0, 0>>

\* np.mean of a list of losses, as an exact fraction
Mean(s) == IF s = <<>> THEN NaN ELSE <<Sum(s), Len(s)>>

\* a < b on floats: false when either side is nan
Less(a, b) ==
  /\ a # NaN
  /\ b # NaN
  /\ a[1] * b[2] < b[1] * a[2]

\* np.concatenate of a list of arrays: the rows add up
Concatenate(arrays) == Sum(arrays)

\* -------------------------------------------------------------- load_dataset
\* latents[indices] / target_coord[indices]: IndexError unless every index is
\* below the length of the array
ValidIndex(i, n) == i >= 0 /\ i < n

\* np.random.random_integers(low, high, 10) draws from low..high inclusive
random_integers(low, high) == low..high

load_dataset(n, debug, idx) ==
  IF debug
  THEN IF \A k \in 1..Len(idx) : ValidIndex(idx[k], n)
       THEN [ok |-> TRUE, data |-> [k \in 1..Len(idx) |-> <<idx[k], idx[k]>>]]
       ELSE [ok |-> FALSE, data |-> <<>>]
  ELSE [ok |-> TRUE, data |-> [k \in 1..n |-> <<k - 1, k - 1>>]]

VARIABLES
  args, fileLen,
  pc, error, actor,
  files,
  decoder, policy, grad,
  indices, dataset, sizes,
  epoch, best_val, avg_train_losses, avg_val_losses,
  train_losses, val_losses, end_poses, target_poses, latents, arrays,
  loader, batch, loss, avg_loss,
  hist

vars ==
  <<args, fileLen, pc, error, actor, files, decoder, policy, grad,
    indices, dataset, sizes, epoch, best_val, avg_train_losses,
    avg_val_losses, train_losses, val_losses, end_poses, target_poses,
    latents, arrays, loader, batch, loss, avg_loss, hist>>

envVars == <<args, fileLen>>
modelVars == <<decoder, policy, grad>>
dataVars == <<indices, dataset, sizes>>
runVars == <<epoch, best_val, avg_train_losses, avg_val_losses>>
passVars == <<train_losses, val_losses, end_poses, target_poses, latents>>
stepVars == <<loader, batch, loss>>

NoError == [kind |-> "none", at |-> "none"]
NoBatch == [rows |-> 0, by |-> MainProcess]
NoFiles ==
  [arguments |-> 0, checkpoint |-> 0, saves |-> 0,
   plots |-> [i \in 1..Len(PlotFiles) |-> 0], partial |-> {}]
NoHist ==
  [valParams |-> <<>>, phases |-> <<>>,
   backwards |-> 0, steps |-> 0, zeros |-> 0, batches |-> 0]

InitCommon ==
  /\ error = NoError
  /\ actor = MainProcess
  /\ files = NoFiles
  /\ decoder = 0
  /\ policy = 0
  /\ grad = 0
  /\ indices = <<>>
  /\ dataset = <<>>
  /\ sizes = [train |-> 0, test |-> 0]
  /\ epoch = 0
  /\ best_val = Inf
  /\ avg_train_losses = <<>>
  /\ avg_val_losses = <<>>
  /\ train_losses = <<>>
  /\ val_losses = <<>>
  /\ end_poses = <<>>
  /\ target_poses = <<>>
  /\ latents = <<>>
  /\ arrays = [train_poses |-> 0, train_targets |-> 0, val_poses |-> 0,
               val_targets |-> 0, latents |-> 0]
  /\ loader = [next |-> 1, ready |-> {}, val_next |-> 1]
  /\ batch = NoBatch
  /\ loss = 0
  /\ avg_loss = NaN
  /\ hist = NoHist

Init ==
  /\ args \in [model_index : ModelIndexes, debug : BOOLEAN,
               num_epoch : {0, MaxEpoch}, num_processes : {0, MaxWorkers},
               batch_size : BatchSizes]
  /\ fileLen \in 0..MaxData
  /\ pc = "start"
  /\ InitCommon

\* ------------------------------------------------------------------ failure
\* An uncaught exception ends the run: main has no try/except
Raise(kind) ==
  /\ pc' = "crashed"
  /\ error' = [kind |-> kind, at |-> pc]
  /\ actor' = MainProcess

\* A library call that writes `name` fails: the file is left as it was when
\* the call fails before opening it, truncated when it fails after
FailedWrite(name) ==
  \E truncated \in BOOLEAN :
    files' = IF truncated
             THEN [files EXCEPT !.partial = @ \cup {name}]
             ELSE files

Goto(next) ==
  /\ pc' = next
  /\ error' = error
  /\ actor' = MainProcess

\* ------------------------------------------------------------ main: set-up
\* save_arguments(args, save_path), then use_cuda()
SaveArguments ==
  /\ pc = "start"
  /\ files' = [files EXCEPT !.arguments = 1]
  /\ Goto("assert")
  /\ UNCHANGED <<envVars, modelVars, dataVars, runVars, passVars, stepVars,
                 arrays, avg_loss, hist>>

SaveArgumentsFails ==
  /\ pc = "start"
  /\ FailedWrite("arguments.txt")
  /\ Raise("LibraryError")
  /\ UNCHANGED <<envVars, modelVars, dataVars, runVars, passVars, stepVars,
                 arrays, avg_loss, hist>>

\* assert(args.model_index > 0)
\* faulty variant: the assertion lets model_index = 0 through
CheckModelIndexOff ==
  /\ pc = "assert"
  /\ IF args.model_index >= 0 THEN Goto("load_vae") ELSE Raise("AssertionError")
  /\ UNCHANGED <<envVars, files, modelVars, dataVars, runVars, passVars,
                 stepVars, arrays, avg_loss, hist>>

CheckModelIndex ==
  /\ pc = "assert"
  /\ IF args.model_index > 0 THEN Goto("load_vae") ELSE Raise("AssertionError")
  /\ UNCHANGED <<envVars, files, modelVars, dataVars, runVars, passVars,
                 stepVars, arrays, avg_loss, hist>>

\* ROSTrajectoryVAE(...), traj_decoder.eval(), traj_decoder.to(device)
LoadDecoder ==
  /\ pc = "load_vae"
  /\ decoder' = 1
  /\ Goto("policy")
  /\ UNCHANGED <<envVars, files, policy, grad, dataVars, runVars, passVars,
                 stepVars, arrays, avg_loss, hist>>

LoadDecoderFails ==
  /\ pc = "load_vae"
  /\ Raise("LibraryError")
  /\ UNCHANGED <<envVars, files, modelVars, dataVars, runVars, passVars,
                 stepVars, arrays, avg_loss, hist>>

\* Predictor(...), optim.Adam(policy.parameters()), optimizer.zero_grad()
MakePolicy ==
  /\ pc = "policy"
  /\ policy' = 1
  /\ grad' = 0
  /\ hist' = [hist EXCEPT !.zeros = @ + 1]
  /\ Goto("load_data")
  /\ UNCHANGED <<envVars, files, decoder, dataVars, runVars, passVars,
                 stepVars, arrays, avg_loss>>

\* dataset = load_dataset(args.g_name, args.debug); the debug draw is sampled
\* by the draws that repeat the lowest or the highest integer it can give
MainDraws ==
  IF args.debug
  THEN {[k \in 1..DebugSamples |-> v] : v \in {0, fileLen} \cap random_integers(0, fileLen)}
  ELSE {<<>>}

LoadWith(idx) ==
  /\ pc = "load_data"
  /\ LET r == load_dataset(fileLen, args.debug, idx) IN
       /\ indices' = idx
       /\ IF r.ok
          THEN dataset' = r.data /\ Goto("split")
          ELSE dataset' = dataset /\ Raise("IndexError")
  /\ UNCHANGED <<envVars, files, modelVars, sizes, runVars, passVars,
                 stepVars, arrays, avg_loss, hist>>

LoadDataset == \E idx \in MainDraws : LoadWith(idx)

\* np.load(data_path) fails: the file is missing or unreadable
LoadDatasetFails ==
  /\ pc = "load_data"
  /\ Raise("LibraryError")
  /\ UNCHANGED <<envVars, files, modelVars, dataVars, runVars, passVars,
                 stepVars, arrays, avg_loss, hist>>

\* train_size = int(len * 0.7); test_size = len - train_size
TrainSize(n) == (n * 7) \div 10

\* random_split and the two DataLoaders; DataLoader rejects batch_size = 0,
\* which is what an empty test split asks for; then best_val and the histories
SplitDataset ==
  /\ pc = "split"
  /\ LET n == Len(dataset)
         train == TrainSize(n)
     IN /\ sizes' = [train |-> train, test |-> n - train]
        /\ IF n - train = 0 THEN Raise("ValueError") ELSE Goto("epoch_top")
  /\ best_val' = Inf
  /\ avg_train_losses' = <<>>
  /\ avg_val_losses' = <<>>
  /\ UNCHANGED <<envVars, files, modelVars, indices, dataset, epoch, passVars,
                 stepVars, arrays, avg_loss, hist>>

\* --------------------------------------------------------- main: training
\* ceil(train_size / batch_size) batches, the last one possibly short
NumBatches == (sizes.train + args.batch_size - 1) \div args.batch_size

BatchRows(b) ==
  IF b * args.batch_size <= sizes.train
  THEN args.batch_size
  ELSE sizes.train - (b - 1) * args.batch_size

\* the worker process that loads batch b (batches are dealt round robin)
WorkerOf(b) == ((b - 1) % args.num_processes) + 1

\* for epoch in range(args.num_epoch): policy.train(), the four empty lists,
\* and the iterator over train_loader
\* faulty variant: the loop runs one epoch too many
EpochTopOff ==
  /\ pc = "epoch_top"
  /\ IF epoch <= args.num_epoch
     THEN /\ Goto("train_next")
          /\ train_losses' = <<>>
          /\ end_poses' = <<>>
          /\ target_poses' = <<>>
          /\ latents' = <<>>
          /\ loader' = [next |-> 1, ready |-> {}, val_next |-> 1]
          /\ hist' = [hist EXCEPT !.phases = <<>>]
     ELSE /\ Goto("done")
          /\ UNCHANGED <<train_losses, end_poses, target_poses, latents,
                         loader, hist>>
  /\ UNCHANGED <<envVars, files, modelVars, dataVars, runVars, val_losses,
                 batch, loss, arrays, avg_loss>>

EpochTop ==
  /\ pc = "epoch_top"
  /\ IF epoch < args.num_epoch
     THEN /\ Goto("train_next")
          /\ train_losses' = <<>>
          /\ end_poses' = <<>>
          /\ target_poses' = <<>>
          /\ latents' = <<>>
          /\ loader' = [next |-> 1, ready |-> {}, val_next |-> 1]
          /\ hist' = [hist EXCEPT !.phases = <<>>]
     ELSE /\ Goto("done")
          /\ UNCHANGED <<train_losses, end_poses, target_poses, latents,
                         loader, hist>>
  /\ UNCHANGED <<envVars, files, modelVars, dataVars, runVars, val_losses,
                 batch, loss, arrays, avg_loss>>

\* the positions of main at which the iterator over train_loader is alive
TrainingPcs == {"train_next", "forward", "backward", "step", "zero_grad"}

\* A DataLoader worker process collates one training batch and queues it
\* faulty variant: a worker that also writes the policy parameters
WorkerFetchSteps(w) ==
  /\ pc \in TrainingPcs
  /\ \E b \in loader.next..NumBatches :
       /\ b \notin loader.ready
       /\ WorkerOf(b) = w
       /\ loader' = [loader EXCEPT !.ready = @ \cup {b}]
  /\ actor' = WorkerProcess(w)
  /\ \E p \in Params : policy' = p
  /\ UNCHANGED <<envVars, pc, error, files, decoder, grad, dataVars, runVars,
                 passVars, batch, loss, arrays, avg_loss, hist>>

WorkerFetch(w) ==
  /\ pc \in TrainingPcs
  /\ \E b \in loader.next..NumBatches :
       /\ b \notin loader.ready
       /\ WorkerOf(b) = w
       /\ loader' = [loader EXCEPT !.ready = @ \cup {b}]
  /\ actor' = WorkerProcess(w)
  /\ UNCHANGED <<envVars, pc, error, files, modelVars, dataVars, runVars,
                 passVars, batch, loss, arrays, avg_loss, hist>>

\* for latent_1, target_pose in train_loader: the next batch, loaded by the
\* main process itself when num_workers = 0, else taken from its worker
TrainNext ==
  /\ pc = "train_next"
  /\ IF loader.next > NumBatches
     THEN /\ Goto("train_end")
          /\ UNCHANGED <<loader, batch>>
     ELSE /\ args.num_processes > 0 => loader.next \in loader.ready
          /\ batch' = [rows |-> BatchRows(loader.next),
                       by |-> IF args.num_processes > 0
                              THEN WorkerProcess(WorkerOf(loader.next))
                              ELSE MainProcess]
          /\ loader' = [loader EXCEPT !.next = @ + 1,
                                      !.ready = @ \ {loader.next}]
          /\ Goto("forward")
  /\ UNCHANGED <<envVars, files, modelVars, dataVars, runVars, passVars,
                 loss, arrays, avg_loss, hist>>

\* policy -> traj_decoder -> to_trajectory -> end_effector_pose -> mse_loss
TrainForward ==
  /\ pc = "forward"
  /\ \E l \in TrainLosses : loss' = l
  /\ Goto("backward")
  /\ UNCHANGED <<envVars, files, modelVars, dataVars, runVars, passVars,
                 loader, batch, arrays, avg_loss, hist>>

\* a shape mismatch in the batch raises inside the forward pass
TrainForwardFails ==
  /\ pc = "forward"
  /\ Raise("LibraryError")
  /\ UNCHANGED <<envVars, files, modelVars, dataVars, runVars, passVars,
                 stepVars, arrays, avg_loss, hist>>

\* loss.backward(): the batch's gradient is added to the accumulated one
Backward ==
  /\ pc = "backward"
  /\ grad' = grad + 1
  /\ hist' = [hist EXCEPT !.backwards = @ + 1]
  /\ Goto("step")
  /\ UNCHANGED <<envVars, files, decoder, policy, dataVars, runVars, passVars,
                 stepVars, arrays, avg_loss>>

\* optimizer.step(): Adam moves the parameters it was given, the policy's
\* faulty variant: the optimizer was given the decoder parameters too
OptimizerStepAll ==
  /\ pc = "step"
  /\ \E w \in Params : policy' = w
  /\ decoder' = decoder + 1
  /\ hist' = [hist EXCEPT !.steps = @ + 1]
  /\ Goto("zero_grad")
  /\ UNCHANGED <<envVars, files, grad, dataVars, runVars, passVars,
                 stepVars, arrays, avg_loss>>

OptimizerStep ==
  /\ pc = "step"
  /\ \E w \in Params : policy' = w
  /\ hist' = [hist EXCEPT !.steps = @ + 1]
  /\ Goto("zero_grad")
  /\ UNCHANGED <<envVars, files, decoder, grad, dataVars, runVars, passVars,
                 stepVars, arrays, avg_loss>>

\* optimizer.zero_grad() and the four appends that end the loop body
\* faulty variant: the gradients are not zeroed after the step
ZeroGradSkipped ==
  /\ pc = "zero_grad"
  /\ grad' = grad
  /\ hist' = [hist EXCEPT !.zeros = @ + 1, !.batches = @ + 1]
  /\ train_losses' = Append(train_losses, loss)
  /\ end_poses' = Append(end_poses, batch.rows)
  /\ target_poses' = Append(target_poses, batch.rows)
  /\ latents' = Append(latents, batch.rows)
  /\ Goto("train_next")
  /\ UNCHANGED <<envVars, files, decoder, policy, dataVars, runVars,
                 val_losses, stepVars, arrays, avg_loss>>

ZeroGrad ==
  /\ pc = "zero_grad"
  /\ grad' = 0
  /\ hist' = [hist EXCEPT !.zeros = @ + 1, !.batches = @ + 1]
  /\ train_losses' = Append(train_losses, loss)
  /\ end_poses' = Append(end_poses, batch.rows)
  /\ target_poses' = Append(target_poses, batch.rows)
  /\ latents' = Append(latents, batch.rows)
  /\ Goto("train_next")
  /\ UNCHANGED <<envVars, files, decoder, policy, dataVars, runVars,
                 val_losses, stepVars, arrays, avg_loss>>

\* avg_loss = np.mean(train_losses), the append to avg_train_losses, the two
\* np.concatenate (ValueError on an empty list), then policy.eval() and the
\* three empty lists of the validation pass
TrainEnd ==
  /\ pc = "train_end"
  /\ avg_loss' = Mean(train_losses)
  /\ avg_train_losses' = Append(avg_train_losses, Mean(train_losses))
  /\ IF end_poses = <<>>
     THEN /\ Raise("ValueError")
          /\ UNCHANGED <<arrays, val_losses, end_poses, target_poses, hist>>
     ELSE /\ arrays' = [arrays EXCEPT
                          !.train_poses = Concatenate(end_poses),
                          !.train_targets = Concatenate(target_poses)]
          /\ val_losses' = <<>>
          /\ end_poses' = <<>>
          /\ target_poses' = <<>>
          /\ hist' = [hist EXCEPT !.phases = Append(@, "train")]
          /\ Goto("val_next")
  /\ UNCHANGED <<envVars, files, modelVars, dataVars, epoch, best_val,
                 avg_val_losses, train_losses, latents, stepVars>>

\* ------------------------------------------------------- main: validation
\* test_loader has batch_size = len(testset): one batch holding every sample
NumValBatches == (sizes.test + sizes.test - 1) \div sizes.test

\* for latent_1, target_pose in test_loader: no workers, the main process
\* loads the batch itself
ValNext ==
  /\ pc = "val_next"
  /\ IF loader.val_next > NumValBatches
     THEN /\ Goto("val_end")
          /\ UNCHANGED <<loader, batch>>
     ELSE /\ batch' = [rows |-> sizes.test, by |-> MainProcess]
          /\ loader' = [loader EXCEPT !.val_next = @ + 1]
          /\ Goto("val_forward")
  /\ UNCHANGED <<envVars, files, modelVars, dataVars, runVars, passVars,
                 loss, arrays, avg_loss, hist>>

\* the forward pass and the loss of the validation batch, then the appends:
\* end_poses receives end_pose twice, once before and once after val_losses
ValForward ==
  /\ pc = "val_forward"
  /\ \E l \in Losses :
       /\ loss' = l
       /\ val_losses' = Append(val_losses, l)
  /\ end_poses' = Append(Append(end_poses, batch.rows), batch.rows)
  /\ target_poses' = Append(target_poses, batch.rows)
  /\ latents' = Append(latents, batch.rows)
  /\ hist' = [hist EXCEPT !.valParams = Append(@, policy)]
  /\ Goto("val_next")
  /\ UNCHANGED <<envVars, files, modelVars, dataVars, runVars, train_losses,
                 loader, batch, arrays, avg_loss>>

ValForwardFails ==
  /\ pc = "val_forward"
  /\ Raise("LibraryError")
  /\ UNCHANGED <<envVars, files, modelVars, dataVars, runVars, passVars,
                 stepVars, arrays, avg_loss, hist>>

\* avg_loss = np.mean(val_losses), the three np.concatenate and the append
\* to avg_val_losses
ValEnd ==
  /\ pc = "val_end"
  /\ avg_loss' = Mean(val_losses)
  /\ arrays' = [arrays EXCEPT !.val_poses = Concatenate(end_poses),
                              !.val_targets = Concatenate(target_poses),
                              !.latents = Concatenate(latents)]
  /\ avg_val_losses' = Append(avg_val_losses, Mean(val_losses))
  /\ hist' = [hist EXCEPT !.phases = Append(@, "val")]
  /\ Goto("checkpoint")
  /\ UNCHANGED <<envVars, files, modelVars, dataVars, epoch, best_val,
                 avg_train_losses, passVars, stepVars>>

\* ------------------------------------------------------- main: checkpoint
\* if avg_loss < best_val: best_val = avg_loss; torch.save(policy.state_dict())
\* faulty variant: the checkpoint is also written on a tie
CheckpointOnTie ==
  /\ pc = "checkpoint"
  /\ IF ~Less(best_val, avg_loss)
     THEN /\ best_val' = avg_loss
          /\ files' = [files EXCEPT !.checkpoint = policy,
                                    !.saves = @ + 1,
                                    !.partial = @ \ {"model.pth.tar"}]
     ELSE UNCHANGED <<best_val, files>>
  /\ hist' = [hist EXCEPT !.phases = Append(@, "checkpoint")]
  /\ Goto("plots")
  /\ UNCHANGED <<envVars, modelVars, dataVars, epoch, avg_train_losses,
                 avg_val_losses, passVars, stepVars, arrays, avg_loss>>

\* faulty variant: the saved parameters are not the current ones
CheckpointStale ==
  /\ pc = "checkpoint"
  /\ IF Less(avg_loss, best_val)
     THEN /\ best_val' = avg_loss
          /\ \E w \in Params :
               files' = [files EXCEPT !.checkpoint = w,
                                      !.saves = @ + 1,
                                      !.partial = @ \ {"model.pth.tar"}]
     ELSE UNCHANGED <<best_val, files>>
  /\ hist' = [hist EXCEPT !.phases = Append(@, "checkpoint")]
  /\ Goto("plots")
  /\ UNCHANGED <<envVars, modelVars, dataVars, epoch, avg_train_losses,
                 avg_val_losses, passVars, stepVars, arrays, avg_loss>>

Checkpoint ==
  /\ pc = "checkpoint"
  /\ IF Less(avg_loss, best_val)
     THEN /\ best_val' = avg_loss
          /\ files' = [files EXCEPT !.checkpoint = policy,
                                    !.saves = @ + 1,
                                    !.partial = @ \ {"model.pth.tar"}]
     ELSE UNCHANGED <<best_val, files>>
  /\ hist' = [hist EXCEPT !.phases = Append(@, "checkpoint")]
  /\ Goto("plots")
  /\ UNCHANGED <<envVars, modelVars, dataVars, epoch, avg_train_losses,
                 avg_val_losses, passVars, stepVars, arrays, avg_loss>>

\* torch.save raises: best_val is already assigned, the file may be truncated
CheckpointFails ==
  /\ pc = "checkpoint"
  /\ Less(avg_loss, best_val)
  /\ best_val' = avg_loss
  /\ FailedWrite("model.pth.tar")
  /\ Raise("LibraryError")
  /\ UNCHANGED <<envVars, modelVars, dataVars, epoch, avg_train_losses,
                 avg_val_losses, passVars, stepVars, arrays, avg_loss, hist>>

\* ------------------------------------------------------------ main: plots
\* the files plt.savefig has written once the first n plot calls are done
PlotsWritten(n) ==
  [files EXCEPT !.plots = [i \in 1..Len(PlotFiles) |->
                             IF i <= n THEN epoch + 1 ELSE files.plots[i]],
                !.partial = @ \ {PlotFiles[i] : i \in 1..n}]

\* the four scatter/latent plots and the two plot_loss calls, which end the
\* body of the epoch loop
Plots ==
  /\ pc = "plots"
  /\ files' = PlotsWritten(Len(PlotFiles))
  /\ epoch' = epoch + 1
  /\ hist' = [hist EXCEPT !.phases = Append(@, "plots")]
  /\ Goto("epoch_top")
  /\ UNCHANGED <<envVars, modelVars, dataVars, best_val, avg_train_losses,
                 avg_val_losses, passVars, stepVars, arrays, avg_loss>>

\* plt.savefig raises in the i-th plot call: the plots before it are written
\* faulty variant: the exception is swallowed and the loop goes on
PlotsFailCaught ==
  /\ pc = "plots"
  /\ \E i \in 1..Len(PlotFiles), truncated \in BOOLEAN :
       files' = IF truncated
                THEN [PlotsWritten(i - 1) EXCEPT !.partial = @ \cup {PlotFiles[i]}]
                ELSE PlotsWritten(i - 1)
  /\ epoch' = epoch + 1
  /\ Goto("epoch_top")
  /\ UNCHANGED <<envVars, modelVars, dataVars, best_val, avg_train_losses,
                 avg_val_losses, passVars, stepVars, arrays, avg_loss, hist>>

PlotsFail ==
  /\ pc = "plots"
  /\ \E i \in 1..Len(PlotFiles), truncated \in BOOLEAN :
       files' = IF truncated
                THEN [PlotsWritten(i - 1) EXCEPT !.partial = @ \cup {PlotFiles[i]}]
                ELSE PlotsWritten(i - 1)
  /\ Raise("LibraryError")
  /\ UNCHANGED <<envVars, modelVars, dataVars, runVars, passVars, stepVars,
                 arrays, avg_loss, hist>>

\* ------------------------------------------------------------------- main
Next ==
  \/ SaveArguments
  \/ SaveArgumentsFails
  \/ CheckModelIndex
  \/ LoadDecoder
  \/ LoadDecoderFails
  \/ MakePolicy
  \/ LoadDataset
  \/ LoadDatasetFails
  \/ SplitDataset
  \/ EpochTop
  \/ \E w \in 1..args.num_processes : WorkerFetch(w)
  \/ TrainNext
  \/ TrainForward
  \/ TrainForwardFails
  \/ Backward
  \/ OptimizerStep
  \/ ZeroGrad
  \/ TrainEnd
  \/ ValNext
  \/ ValForward
  \/ ValForwardFails
  \/ ValEnd
  \/ Checkpoint
  \/ CheckpointFails
  \/ Plots
  \/ PlotsFail

Spec == Init /\ [][Next]_vars

\* ------------------------------------------------------ load_dataset alone
\* every file length up to MaxData, debug on and off, and in debug mode every
\* draw of DebugSamples integers that random_integers can return
Draws(debug, n) ==
  IF debug
  THEN [1..DebugSamples -> random_integers(0, n)]
  ELSE {<<>>}

InitLoad ==
  /\ args \in [model_index : {1}, debug : BOOLEAN, num_epoch : {0},
               num_processes : {0}, batch_size : {DefaultBatchSize}]
  /\ fileLen \in 0..MaxData
  /\ pc = "draw"
  /\ InitCommon

\* np.random.random_integers(0, len(latents), 10), one integer at a time
DrawIndex ==
  /\ pc = "draw"
  /\ args.debug
  /\ Len(indices) < DebugSamples
  /\ \E i \in random_integers(0, fileLen) : indices' = Append(indices, i)
  /\ UNCHANGED <<envVars, pc, error, actor, files, modelVars, dataset, sizes,
                 runVars, passVars, stepVars, arrays, avg_loss, hist>>

\* the draw is complete: load_dataset indexes the arrays with it
DrawDone ==
  /\ pc = "draw"
  /\ indices \in Draws(args.debug, fileLen)
  /\ Goto("load_data")
  /\ UNCHANGED <<envVars, files, modelVars, dataVars, runVars, passVars,
                 stepVars, arrays, avg_loss, hist>>

LoadDatasetDrawn == LoadWith(indices)

NextLoad ==
  \/ DrawIndex
  \/ DrawDone
  \/ LoadDatasetDrawn

LoadSpec == InitLoad /\ [][NextLoad]_vars

\* ================================================================ claims
\* where main is, or was when it raised
Pos == IF pc = "crashed" THEN error.at ELSE pc

SetupPcs == {"start", "assert", "load_vae", "policy", "load_data", "split"}

\* equality of two means
SameValue(a, b) == a[1] * b[2] = b[1] * a[2]

\* the validation loss of epoch k is strictly below that of every earlier one
Improves(k) == \A j \in 1..(k - 1) : Less(avg_val_losses[k], avg_val_losses[j])

\* b is the minimum of the list s of means, +infinity for the empty list
IsMinimum(b, s) ==
  IF s = <<>>
  THEN b = Inf
  ELSE /\ \E k \in 1..Len(s) : SameValue(b, s[k])
       /\ \A k \in 1..Len(s) : ~Less(s[k], b)

\* the checkpoint decision of every epoch whose validation loss is recorded
\* has been taken
Decided == Pos # "checkpoint"

\* ---- C1
C1_State ==
  Decided =>
    /\ IsMinimum(best_val, avg_val_losses)
    /\ files.saves =
         Cardinality({k \in 1..Len(avg_val_losses) : Improves(k)})

C1_Step ==
  /\ ~Less(best_val, best_val')
  /\ (pc = "checkpoint" /\ pc' = "plots") =>
       /\ (files'.saves = files.saves + 1) <=> Improves(Len(avg_val_losses))
       /\ ~Improves(Len(avg_val_losses)) => files' = files
  /\ (pc # "checkpoint") =>
       /\ files'.saves = files.saves
       /\ files'.checkpoint = files.checkpoint

\* C1: the checkpoint is written in an epoch exactly when that epoch's average
\* validation loss is strictly below that of every earlier epoch; after the
\* decision best_val is the minimum of avg_val_losses; best_val never
\* increases; an epoch that ties or worsens the best leaves the file untouched.
C1_CheckpointIffImproved == [](C1_State) /\ [][C1_Step]_vars

\* an epoch tied the best loss of an earlier epoch and wrote nothing
C1_Witness ==
  /\ pc = "plots"
  /\ Len(avg_val_losses) = 2
  /\ avg_val_losses[1] = avg_val_losses[2]
  /\ files.saves = 1

\* ---- C2
\* the earliest epoch whose validation loss is the minimum so far
FirstBest ==
  CHOOSE k \in 1..Len(avg_val_losses) :
    /\ \A j \in 1..Len(avg_val_losses) :
         ~Less(avg_val_losses[j], avg_val_losses[k])
    /\ \A j \in 1..(k - 1) : Less(avg_val_losses[k], avg_val_losses[j])

\* C2: once an epoch is decided, model.pth.tar holds the parameters that the
\* validation pass of the earliest best epoch ran with, whatever training has
\* done since; and the parameters at the checkpoint decision are those the
\* validation pass of that epoch ran with.
C2_CheckpointIsBestModel ==
  /\ (Decided /\ avg_val_losses # <<>>) =>
       /\ files.checkpoint = hist.valParams[FirstBest]
       /\ "model.pth.tar" \notin files.partial
  /\ pc \in {"val_end", "checkpoint"} =>
       policy = hist.valParams[Len(hist.valParams)]

\* training moved the policy away from the stored best model
C2_Witness ==
  /\ pc = "plots"
  /\ Len(avg_val_losses) = 2
  /\ Less(avg_val_losses[1], avg_val_losses[2])
  /\ policy # files.checkpoint
  /\ files.checkpoint = hist.valParams[1]

\* ---- C3
LoopPcs ==
  {"epoch_top", "train_next", "forward", "backward", "step", "zero_grad",
   "train_end", "val_next", "val_forward", "val_end", "checkpoint", "plots"}

\* an upper bound on the steps one epoch takes with nb training batches: six
\* per batch (its worker's fetch and the five steps of the loop body) and ten
\* around them
EpochCost(nb) == nb * 6 + 10

\* the training batches the iterator still has to hand out, counting once
\* more each one that a worker has yet to fetch
BatchesLeft ==
  LET left == loader.next..NumBatches
      unfetched == IF args.num_processes > 0 THEN left \ loader.ready ELSE {}
  IN Cardinality(left) * 5 + Cardinality(unfetched)

\* the steps left in the current epoch
EpochLeft ==
  CASE pc = "train_next" -> BatchesLeft + 9
    [] pc = "forward" -> BatchesLeft + 13
    [] pc = "backward" -> BatchesLeft + 12
    [] pc = "step" -> BatchesLeft + 11
    [] pc = "zero_grad" -> BatchesLeft + 10
    [] pc = "train_end" -> 8
    [] pc = "val_next" -> IF loader.val_next > NumValBatches THEN 5 ELSE 7
    [] pc = "val_forward" -> 6
    [] pc = "val_end" -> 4
    [] pc = "checkpoint" -> 3
    [] pc = "plots" -> 2

\* more steps than any run of the loop takes
LoopCost == MaxEpoch * EpochCost(DebugSamples + MaxData) + 2

\* a bound on the number of steps the run has left
Remaining ==
  CASE pc \in {"done", "crashed"} -> 0
    [] pc = "draw" -> LoopCost + 7
    [] pc = "start" -> LoopCost + 6
    [] pc = "assert" -> LoopCost + 5
    [] pc = "load_vae" -> LoopCost + 4
    [] pc = "policy" -> LoopCost + 3
    [] pc = "load_data" -> LoopCost + 2
    [] pc = "split" -> LoopCost + 1
    [] pc = "epoch_top" ->
         IF epoch < args.num_epoch
         THEN (args.num_epoch - epoch) * EpochCost(NumBatches) + 1
         ELSE 1
    [] OTHER -> (args.num_epoch - epoch - 1) * EpochCost(NumBatches) + 1 + EpochLeft

C3_State ==
  /\ pc = "done" =>
       /\ epoch = args.num_epoch
       /\ Len(avg_train_losses) = args.num_epoch
       /\ Len(avg_val_losses) = args.num_epoch
  /\ pc = "epoch_top" =>
       /\ Len(avg_train_losses) = epoch
       /\ Len(avg_val_losses) = epoch
       /\ epoch > 0 => hist.phases = <<"train", "val", "checkpoint", "plots">>
  /\ (pc = "crashed" /\ error.at \in LoopPcs /\ sizes.train > 0 /\ sizes.test > 0)
       => error.kind = "LibraryError"
  /\ (pc \notin {"done", "crashed"}) => ENABLED Next

\* C3: every step of a run brings it closer to its end and the run never
\* blocks before it; with both splits non-empty the loop stops early only on
\* an exception of a library call; it ends after exactly num_epoch epochs,
\* each of them a training pass, a validation pass, the checkpoint decision
\* and the plots in this order; after k epochs both loss histories hold k
\* entries.
C3_RunsNumEpochEpochs == [](C3_State) /\ [][Remaining' < Remaining]_vars

C3_Witness ==
  /\ pc = "done"
  /\ epoch = MaxEpoch
  /\ sizes.train > 0
  /\ Len(avg_train_losses) = MaxEpoch
  /\ Len(avg_val_losses) = MaxEpoch

\* ---- C4
C4_Step ==
  /\ (policy # 0 /\ policy' # policy) => (pc = "step" /\ pc' = "zero_grad")
  /\ decoder # 0 => decoder' = decoder
  /\ pc # "load_data" => (dataset' = dataset /\ indices' = indices)
  /\ pc \in {"val_next", "val_forward", "val_end", "checkpoint", "plots"}
       => policy' = policy

\* C4: once built, the policy's parameters change only in optimizer.step();
\* validation, the checkpoint write and the plots leave them alone; the
\* decoder's weights never change after loading, nor does the dataset.
C4_OnlyOptimizerChangesPolicy == [][C4_Step]_vars

\* a finished run whose optimizer moved the policy and left the decoder alone
C4_Witness ==
  /\ pc = "done"
  /\ hist.steps > 0
  /\ policy # 1
  /\ decoder = 1
  /\ dataset # <<>>

\* ---- C5
LibraryErrors == {"LibraryError", "IndexError", "ValueError"}

AllFiles ==
  {"arguments.txt", "model.pth.tar"} \cup {PlotFiles[i] : i \in 1..Len(PlotFiles)}

\* the files the step at position p writes
Targets(p) ==
  CASE p = "start" -> {"arguments.txt"}
    [] p = "checkpoint" -> {"model.pth.tar"}
    [] p = "plots" -> {PlotFiles[i] : i \in 1..Len(PlotFiles)}
    [] OTHER -> {}

\* what the file system fs holds under the name f
FileState(f, fs) ==
  [partial |-> f \in fs.partial,
   content |-> CASE f = "arguments.txt" -> fs.arguments
                 [] f = "model.pth.tar" -> fs.checkpoint
                 [] OTHER -> fs.plots[CHOOSE i \in 1..Len(PlotFiles) : PlotFiles[i] = f]]

\* the file f has been written by a step of this run
Written(f) == FileState(f, files).content # 0

C5_OriginalStep ==
  /\ pc # "crashed"
  /\ pc' = "crashed" =>
       \A f \in AllFiles : Written(f) => FileState(f, files') = FileState(f, files)

\* C5 as stated: a failure stops the run for good, leaves every file that an
\* earlier step wrote as it was, and is always an exception of a library call, never an error the
\* script raises itself.
C5_AsStated ==
  /\ [](pc = "crashed" => error.kind \in LibraryErrors)
  /\ [][C5_OriginalStep]_vars

C5_State ==
  /\ pc = "crashed" =>
       \/ error.kind \in LibraryErrors
       \/ error.kind = "AssertionError" /\ error.at = "assert"
  /\ files.partial # {} => pc = "crashed"

C5_Step ==
  /\ pc # "crashed"
  /\ pc' = "crashed" =>
       \A f \in AllFiles \ Targets(pc) : FileState(f, files') = FileState(f, files)

\* C5 amended: a failure stops the run for good (no step follows it, and a
\* truncated file is found only after a run that stopped); every file but
\* those the failing step itself writes is left as it was; the failure is an
\* exception of a library call or the script's own assertion on model_index.
C5_FailureStopsRun == [](C5_State) /\ [][C5_Step]_vars

\* a plot write failed in a later epoch: the checkpoint and arguments.txt stand
C5_Witness ==
  /\ pc = "crashed"
  /\ error.at = "plots"
  /\ epoch = 1
  /\ files.partial # {}
  /\ files.checkpoint # 0
  /\ files.arguments = 1

\* ---- C6
\* C6: with model_index <= 0, the default included, the run gets no further
\* than the assertion: no model, dataset, checkpoint or plot is touched, and
\* when the assertion stops it arguments.txt is written.
C6_TrainingNeedsModelIndex ==
  /\ DefaultModelIndex <= 0
  /\ args.model_index <= 0 =>
       /\ Pos \in {"start", "assert"}
       /\ decoder = 0
       /\ policy = 0
       /\ dataset = <<>>
       /\ files.checkpoint = 0
       /\ files.saves = 0
       /\ \A i \in 1..Len(PlotFiles) : files.plots[i] = 0
       /\ files.partial \subseteq {"arguments.txt"}
       /\ error.kind = "AssertionError" =>
            (error.at = "assert" /\ files.arguments = 1)
  /\ Pos \notin {"start", "assert"} => args.model_index > 0

C6_Witness ==
  /\ args.model_index = DefaultModelIndex
  /\ pc = "crashed"
  /\ error.kind = "AssertionError"
  /\ files.arguments = 1

\* ---- C7
\* everything but the queue of fetched training batches
MainOwned ==
  <<pc, error, files, decoder, policy, grad, indices, dataset, sizes, epoch,
    best_val, avg_train_losses, avg_val_losses, train_losses, val_losses,
    end_poses, target_poses, latents, arrays, batch, loss, avg_loss,
    loader.next, loader.val_next, hist>>

C7_Step ==
  /\ MainOwned' # MainOwned => actor' = MainProcess
  /\ actor' # MainProcess =>
       /\ actor'.id \in 1..args.num_processes
       /\ pc \in TrainingPcs
       /\ \E b \in loader.next..NumBatches :
            /\ b \notin loader.ready
            /\ loader'.ready = loader.ready \cup {b}

C7_State ==
  /\ pc = "val_forward" => batch.by = MainProcess
  /\ args.num_processes = 0 => (actor = MainProcess /\ batch.by = MainProcess)
  /\ (args.num_processes > 0 /\ pc \in TrainingPcs \ {"train_next"})
       => batch.by.proc = "worker"

\* C7: a worker process does nothing but fetch a training batch that is still
\* to come and queue it; every other change of state (optimizer steps,
\* best_val, the loss histories, checkpoint and plot writes) is a step of the
\* main process; the validation batch is loaded by the main process.
C7_WorkersOnlyFetch == [](C7_State) /\ [][C7_Step]_vars

\* a worker fetched a later batch while the main process was about to step
C7_Witness ==
  /\ pc = "step"
  /\ actor.proc = "worker"
  /\ loader.ready # {}
  /\ batch.by.proc = "worker"

\* ---- C8
\* the counts of backward, step and zero_grad calls against the batches whose
\* loop body is complete; the gradient holds the backwards not yet zeroed
C8_Expected(extraBackward, extraStep) ==
  /\ hist.backwards = hist.batches + extraBackward
  /\ hist.steps = hist.batches + extraStep
  /\ grad = extraBackward
  /\ hist.zeros = IF policy = 0 THEN 0 ELSE hist.batches + 1

\* C8: the accumulated gradient is zero when backward is called and holds
\* exactly one batch's gradient when the optimizer steps; every batch taken
\* has had one backward, one step and one zero_grad, in every epoch.
C8_OneBatchPerStep ==
  /\ Pos = "backward" => grad = 0
  /\ Pos = "step" => grad = 1
  /\ CASE Pos = "step" -> C8_Expected(1, 0)
       [] Pos = "zero_grad" -> C8_Expected(1, 1)
       [] OTHER -> C8_Expected(0, 0)

\* backward is about to run in a later epoch
C8_Witness ==
  /\ pc = "backward"
  /\ epoch = 1
  /\ hist.backwards >= 1
  /\ grad = 0

\* ---- C9
\* C9: the arrays handed to the scatter plots pair predictions and targets one
\* to one: val_poses has as many rows as val_targets (one per validation
\* sample), train_poses as many as train_targets, and the combined arrays as
\* many rows each as the dataset has samples.
C9_PosesPairTargets ==
  pc = "plots" =>
    /\ arrays.train_poses = arrays.train_targets
    /\ arrays.train_targets = sizes.train
    /\ arrays.val_poses = arrays.val_targets
    /\ arrays.val_targets = sizes.test
    /\ arrays.train_poses + arrays.val_poses = Len(dataset)
    /\ arrays.train_targets + arrays.val_targets = Len(dataset)

\* ---- C10
\* C10: in debug mode, for every non-empty file, load_dataset returns
\* DebugSamples pairs without failing, every drawn index being a valid index
\* of the loaded arrays and latent i staying paired with target i.
C10_DebugLoadSucceeds ==
  (args.debug /\ fileLen >= 1 /\ Pos = "load_data" /\ pc # "load_data") =>
    /\ pc = "split"
    /\ Len(dataset) = DebugSamples
    /\ \A k \in 1..Len(indices) : ValidIndex(indices[k], fileLen)
    /\ \A k \in 1..Len(dataset) :
         dataset[k] = <<indices[k], indices[k]>>

====
